---- MODULE Spec2Model ----
(***************************************************************************)
(* A model of scripts/web_scraper.py (class WebScraper).                   *)
(*                                                                         *)
(* Strings are sequences of one-character strings, so that substring       *)
(* tests, splitting and word counting are computed and not assumed.        *)
(* Three specifications share the module:                                  *)
(*   Spec         save_to_files(urls)                                      *)
(*   SpecSitemap  get_urls_in_sitemap(sitemap_url)                         *)
(*   SpecScrape   scrape_webpage(url)                                      *)
(***************************************************************************)
EXTENDS Integers, Sequences, FiniteSets, TLC

VARIABLES
    \* save_to_files
    urls,              \* the argument: the list of URLs
    pc,                \* position in save_to_files
    idx,               \* enumerate() index of the loop, 0-based
    text,              \* the text scrape_webpage returned for urls[idx]
    delay,             \* seconds of the running time.sleep, 0 when not sleeping
    url_to_file_map,   \* the dict, as its insertion-ordered list of <<url, filename>>
    npy,               \* data/url_list.npy: <<>> when absent, <<array>> when saved
    files,             \* the data/webpage_<idx>.txt files: a set of <<filename, content>>
    csv,               \* data/url_to_file_map.csv: <<>> when absent, <<rows>> when present
    log,               \* what was printed
    trace,             \* history: the fetches, file writes, sleeps and the CSV write
    \* get_urls_in_sitemap
    sitemap,           \* the parsed document: the elements below the root, in order
    sm_pc,             \* position in get_urls_in_sitemap
    sm_found,          \* urls, as findall returned it
    sm_i,              \* the comprehension's position in sm_found
    sm_urls,           \* urls, the list the comprehension builds
    \* scrape_webpage
    sc_page,           \* the parsed page: its tags, in document order
    sc_pc,             \* position in scrape_webpage
    relevant_tags, sc_text, sentences, filtered_sentences, filtered_text

saveVars == <<urls, pc, idx, text, delay, url_to_file_map, npy, files, csv, log, trace>>
sitemapVars == <<sitemap, sm_pc, sm_found, sm_i, sm_urls>>
scrapeVars == <<sc_page, sc_pc, relevant_tags, sc_text, sentences, filtered_sentences, filtered_text>>
vars == <<saveVars, sitemapVars, scrapeVars>>

----------------------------------------------------------------------------
(* Bounds of the model *)

MaxUrls == 3
MaxElems == 3
MaxTags == 3

----------------------------------------------------------------------------
(* Sequences *)

SeqsUpTo(S, n) == UNION {[1..k -> S] : k \in 0..n}

Prefixes(s) == {SubSeq(s, 1, k) : k \in 0..(Len(s) - 1)}

RECURSIVE JoinWith(_, _)
\* sep.join(parts)
JoinWith(sep, parts) ==
    IF parts = <<>> THEN <<>>
    ELSE IF Len(parts) = 1 THEN parts[1]
    ELSE parts[1] \o sep \o JoinWith(sep, Tail(parts))

----------------------------------------------------------------------------
(* save_to_files *)

\* The URLs a caller may pass; of different lengths, and the list may repeat one.
Urls == {<<"u">>, <<"v", "w">>}

\* The texts scrape_webpage may return; the empty text is one of them.
Texts == {<<>>, <<"a">>}

MinDelay == 3
MaxDelay == 7

DigitChar(d) == <<"0", "1", "2", "3", "4", "5", "6", "7", "8", "9">>[d + 1]

RECURSIVE Digits(_)
\* str(n) of a non-negative integer
Digits(n) == IF n < 10 THEN <<DigitChar(n)>>
             ELSE Digits(n \div 10) \o <<DigitChar(n % 10)>>

\* f"data/webpage_{idx}.txt"
Filename(i) == <<"data/webpage_">> \o Digits(i) \o <<".txt">>

\* np.array(urls): a fixed-width unicode array, every item padded with NULs
\* to the width of the longest.
MaxLen(list) == IF list = <<>> THEN 0
                ELSE CHOOSE m \in {Len(list[i]) : i \in DOMAIN list} :
                        \A i \in DOMAIN list : Len(list[i]) <= m

Pad(s, w) == s \o [k \in 1..(w - Len(s)) |-> "NUL"]

\* Variant: the array is built from the distinct urls (first occurrences).
NpArrayDistinct(list) ==
    LET firsts == {i \in DOMAIN list : \A j \in 1..(i - 1) : list[j] # list[i]}
        n == Cardinality(firsts)
        nth(k) == CHOOSE i \in firsts : Cardinality({j \in firsts : j < i}) = k - 1
        kept == [k \in 1..n |-> list[nth(k)]]
    IN  [width |-> MaxLen(kept),
         items |-> [k \in 1..n |-> Pad(kept[k], MaxLen(kept))]]

NpArray(list) == [width |-> MaxLen(list),
                  items |-> [i \in DOMAIN list |-> Pad(list[i], MaxLen(list))]]

RECURSIVE StripNul(_)
\* an item read back from a unicode array: the trailing NULs are dropped
StripNul(s) == IF s # <<>> /\ s[Len(s)] = "NUL"
               THEN StripNul(SubSeq(s, 1, Len(s) - 1))
               ELSE s

NpLoad(arr) == [i \in DOMAIN arr.items |-> StripNul(arr.items[i])]

\* dict: key in d
DictHas(d, k) == \E i \in DOMAIN d : d[i][1] = k

\* dict: d[k]
DictGet(d, k) == d[CHOOSE i \in DOMAIN d : d[i][1] = k][2]

\* Variant: a list of pairs, every assignment appended.
DictSetAppend(d, k, v) == Append(d, <<k, v>>)

\* dict: d[k] = v; a key already present keeps its place
DictSet(d, k, v) ==
    IF DictHas(d, k)
    THEN [i \in DOMAIN d |-> IF d[i][1] = k THEN <<k, v>> ELSE d[i]]
    ELSE Append(d, <<k, v>>)

\* open(filename, "w") ... f.write(content): the file is replaced
WriteFile(fs, name, content) ==
    {p \in fs : p[1] # name} \cup {<<name, content>>}

\* What a failed write may leave: nothing (open failed) or a truncated file.
FailedWrite(fs, name, content) ==
    {fs} \cup {WriteFile(fs, name, part) : part \in Prefixes(content)}

Event(op, i, ok, t) == [op |-> op, idx |-> i, ok |-> ok, text |-> t]

HeaderRow == << <<"URL">>, <<"Document">> >>

\* Variant: the two columns are written the other way round.
CsvRowsSwapped(d) == <<HeaderRow>> \o [i \in DOMAIN d |-> <<d[i][2], d[i][1]>>]

\* the rows csv.writer is given, in order
CsvRows(d) == <<HeaderRow>> \o d

InitSave ==
    /\ urls \in SeqsUpTo(Urls, MaxUrls)
    /\ pc = "start"
    /\ idx = 0
    /\ text = <<>>
    /\ delay = 0
    /\ url_to_file_map = <<>>
    /\ npy = <<>>
    /\ files = {}
    /\ csv = <<>>
    /\ log = <<>>
    /\ trace = <<>>

\* np.save("data/url_list.npy", np.array(urls)); url_to_file_map = {}
NpSave ==
    /\ pc = "start"
    /\ npy' = <<NpArray(urls)>>
    /\ url_to_file_map' = <<>>
    /\ idx' = 0
    /\ pc' = "loop"
    /\ UNCHANGED <<urls, text, delay, files, csv, log, trace>>
    /\ UNCHANGED <<sitemapVars, scrapeVars>>

\* np.save raises (it is outside every try): save_to_files ends with the exception
NpSaveRaises ==
    /\ pc = "start"
    /\ pc' = "raised"
    /\ UNCHANGED <<urls, idx, text, delay, url_to_file_map, npy, files, csv, log, trace>>
    /\ UNCHANGED <<sitemapVars, scrapeVars>>

\* text = self.scrape_webpage(url) returns t
ScrapeOk(t) ==
    /\ pc = "loop"
    /\ idx < Len(urls)
    /\ text' = t
    /\ trace' = Append(trace, Event("fetch", idx, TRUE, t))
    /\ pc' = "write"
    /\ UNCHANGED <<urls, idx, delay, url_to_file_map, npy, files, csv, log>>
    /\ UNCHANGED <<sitemapVars, scrapeVars>>

\* Variant: the failed scrape is retried, the loop staying on the same url.
ScrapeFailsRetry ==
    /\ pc = "loop"
    /\ idx < Len(urls)
    /\ trace' = Append(trace, Event("fetch", idx, FALSE, <<>>))
    /\ log' = Append(log, <<"Failed to scrape webpage", urls[idx + 1]>>)
    /\ UNCHANGED <<urls, pc, idx, text, delay, url_to_file_map, npy, files, csv>>
    /\ UNCHANGED <<sitemapVars, scrapeVars>>

\* scrape_webpage raises: print and continue
ScrapeFails ==
    /\ pc = "loop"
    /\ idx < Len(urls)
    /\ trace' = Append(trace, Event("fetch", idx, FALSE, <<>>))
    /\ log' = Append(log, <<"Failed to scrape webpage", urls[idx + 1]>>)
    /\ idx' = idx + 1
    /\ UNCHANGED <<urls, pc, text, delay, url_to_file_map, npy, files, csv>>
    /\ UNCHANGED <<sitemapVars, scrapeVars>>

\* Variant: the file is numbered by the count of successes so far.
WriteOkBySuccesses ==
    /\ pc = "write"
    /\ files' = WriteFile(files, Filename(Len(url_to_file_map)), text)
    /\ log' = Append(log, <<"Successfully wrote file", Filename(Len(url_to_file_map))>>)
    /\ url_to_file_map' =
          DictSet(url_to_file_map, urls[idx + 1], Filename(Len(url_to_file_map)))
    /\ trace' = Append(trace, Event("write", idx, TRUE, text))
    /\ pc' = "sleep"
    /\ UNCHANGED <<urls, idx, text, delay, npy, csv>>
    /\ UNCHANGED <<sitemapVars, scrapeVars>>

\* the file is written; the url is added to the map
WriteOk ==
    /\ pc = "write"
    /\ files' = WriteFile(files, Filename(idx), text)
    /\ log' = Append(log, <<"Successfully wrote file", Filename(idx)>>)
    /\ url_to_file_map' = DictSet(url_to_file_map, urls[idx + 1], Filename(idx))
    /\ trace' = Append(trace, Event("write", idx, TRUE, text))
    /\ pc' = "sleep"
    /\ UNCHANGED <<urls, idx, text, delay, npy, csv>>
    /\ UNCHANGED <<sitemapVars, scrapeVars>>

\* Variant: the url is added to the map before the write is known to succeed.
WriteFailsMapped ==
    /\ pc = "write"
    /\ files' \in FailedWrite(files, Filename(idx), text)
    /\ log' = Append(log, <<"Failed to write file", Filename(idx)>>)
    /\ url_to_file_map' = DictSet(url_to_file_map, urls[idx + 1], Filename(idx))
    /\ trace' = Append(trace, Event("write", idx, FALSE, text))
    /\ pc' = "sleep"
    /\ UNCHANGED <<urls, idx, text, delay, npy, csv>>
    /\ UNCHANGED <<sitemapVars, scrapeVars>>

\* Variant: a failed write goes on to the next url without the sleep.
WriteFailsNoSleep ==
    /\ pc = "write"
    /\ files' \in FailedWrite(files, Filename(idx), text)
    /\ log' = Append(log, <<"Failed to write file", Filename(idx)>>)
    /\ trace' = Append(trace, Event("write", idx, FALSE, text))
    /\ idx' = idx + 1
    /\ pc' = "loop"
    /\ UNCHANGED <<urls, text, delay, url_to_file_map, npy, csv>>
    /\ UNCHANGED <<sitemapVars, scrapeVars>>

\* open or write raises: print; the map is not touched
WriteFails ==
    /\ pc = "write"
    /\ files' \in FailedWrite(files, Filename(idx), text)
    /\ log' = Append(log, <<"Failed to write file", Filename(idx)>>)
    /\ trace' = Append(trace, Event("write", idx, FALSE, text))
    /\ pc' = "sleep"
    /\ UNCHANGED <<urls, idx, text, delay, url_to_file_map, npy, csv>>
    /\ UNCHANGED <<sitemapVars, scrapeVars>>

\* time.sleep(random.randint(3, 7)) starts
Sleep ==
    /\ pc = "sleep"
    /\ delay' \in MinDelay..MaxDelay
    /\ trace' = Append(trace, Event("sleep", idx, TRUE, <<>>))
    /\ pc' = "sleeping"
    /\ UNCHANGED <<urls, idx, text, url_to_file_map, npy, files, csv, log>>
    /\ UNCHANGED <<sitemapVars, scrapeVars>>

\* Variant: the loop does not move on after the sleep.
WakeSameUrl ==
    /\ pc = "sleeping"
    /\ delay' = 0
    /\ pc' = "loop"
    /\ UNCHANGED <<urls, idx, text, url_to_file_map, npy, files, csv, log, trace>>
    /\ UNCHANGED <<sitemapVars, scrapeVars>>

\* time.sleep returns; the loop moves to the next url
Wake ==
    /\ pc = "sleeping"
    /\ delay' = 0
    /\ idx' = idx + 1
    /\ pc' = "loop"
    /\ UNCHANGED <<urls, text, url_to_file_map, npy, files, csv, log, trace>>
    /\ UNCHANGED <<sitemapVars, scrapeVars>>

\* the loop is over; the mapping is written to the CSV file
WriteCsvOk ==
    /\ pc = "loop"
    /\ idx = Len(urls)
    /\ csv' = <<CsvRows(url_to_file_map)>>
    /\ trace' = Append(trace, Event("csv", idx, TRUE, <<>>))
    /\ pc' = "done"
    /\ UNCHANGED <<urls, idx, text, delay, url_to_file_map, npy, files, log>>
    /\ UNCHANGED <<sitemapVars, scrapeVars>>

\* writing the CSV file raises: print; the file is absent or cut short
WriteCsvFails ==
    /\ pc = "loop"
    /\ idx = Len(urls)
    /\ csv' \in {<<>>} \cup {<<part>> : part \in Prefixes(CsvRows(url_to_file_map))}
    /\ log' = Append(log, <<"Failed to write URL to file map", <<>>>>)
    /\ trace' = Append(trace, Event("csv", idx, FALSE, <<>>))
    /\ pc' = "done"
    /\ UNCHANGED <<urls, idx, text, delay, url_to_file_map, npy, files>>
    /\ UNCHANGED <<sitemapVars, scrapeVars>>

SitemapIdle ==
    /\ sitemap = <<>> /\ sm_pc = "idle" /\ sm_found = <<>> /\ sm_i = 0 /\ sm_urls = <<>>

ScrapeIdle ==
    /\ sc_page = <<>> /\ sc_pc = "idle" /\ relevant_tags = <<>> /\ sc_text = <<>>
    /\ sentences = <<>>
    /\ filtered_sentences = <<>> /\ filtered_text = <<>>

Init == InitSave /\ SitemapIdle /\ ScrapeIdle

Next ==
    \/ NpSave
    \/ NpSaveRaises
    \/ \E t \in Texts : ScrapeOk(t)
    \/ ScrapeFails
    \/ WriteOk
    \/ WriteFails
    \/ Sleep
    \/ Wake
    \/ WriteCsvOk
    \/ WriteCsvFails

Spec == Init /\ [][Next]_vars

\* A sequential program takes its next step: every call returns or raises.
FairSpec == Spec /\ WF_vars(Next)

----------------------------------------------------------------------------
(* What the history says about each list position *)

MaxIdx == 120

DigitVal(c) == CHOOSE d \in 0..9 : DigitChar(d) = c

RECURSIVE ParseNat(_)
\* the number a string of decimal digits denotes
ParseNat(ds) == IF ds = <<>> THEN 0
                ELSE 10 * ParseNat(SubSeq(ds, 1, Len(ds) - 1)) + DigitVal(ds[Len(ds)])

\* the <idx> of a name data/webpage_<idx>.txt
FileIndex(name) == ParseNat(SubSeq(name, 2, Len(name) - 1))

IsPageFile(name) ==
    /\ Len(name) >= 3
    /\ name[1] = "data/webpage_"
    /\ name[Len(name)] = ".txt"
    /\ \A k \in 2..(Len(name) - 1) : \E d \in 0..9 : DigitChar(d) = name[k]

Positions == 0..(Len(urls) - 1)

EventsOf(op, i) == {k \in DOMAIN trace : trace[k].op = op /\ trace[k].idx = i}

At(op, i) == CHOOSE k \in EventsOf(op, i) : TRUE

Fetched(i) == EventsOf("fetch", i) # {}
ScrapeSucceeded(i) == \E k \in EventsOf("fetch", i) : trace[k].ok
ScrapeFailed(i) == \E k \in EventsOf("fetch", i) : ~trace[k].ok
WriteSucceeded(i) == \E k \in EventsOf("write", i) : trace[k].ok
WriteFailed(i) == \E k \in EventsOf("write", i) : ~trace[k].ok
Slept(i) == EventsOf("sleep", i) # {}
ReturnedText(i) == trace[At("fetch", i)].text

FilesOf(i) == {p \in files : FileIndex(p[1]) = i}
EntriesOf(i) == {k \in DOMAIN url_to_file_map : FileIndex(url_to_file_map[k][2]) = i}
Logged(msg, arg) == \E k \in DOMAIN log : log[k] = <<msg, arg>>
LogCount(msg) == Cardinality({k \in DOMAIN log : log[k][1] = msg})

WrittenPositions(u) == {i \in Positions : urls[i + 1] = u /\ WriteSucceeded(i)}
LastWritten(u) == CHOOSE i \in WrittenPositions(u) : \A j \in WrittenPositions(u) : j <= i
FirstWritten(u) == CHOOSE i \in WrittenPositions(u) : \A j \in WrittenPositions(u) : i <= j

CsvAttempts == {k \in DOMAIN trace : trace[k].op = "csv"}
CsvWritten == pc = "done" /\ \E k \in CsvAttempts : trace[k].ok

----------------------------------------------------------------------------
(* C3 *)

\* C3: a failed scrape is logged and the URL skipped without retry: every
\* position is fetched at most once; a position whose scrape failed has its
\* failure logged, no text file, and no mapping entry naming its file; and when
\* save_to_files is done every later position has been fetched too.
C3_SkipOnScrapeFailure ==
    /\ \A i \in Positions : Cardinality(EventsOf("fetch", i)) <= 1
    /\ LogCount("Failed to scrape webpage")
          = Cardinality({i \in Positions : ScrapeFailed(i)})
    /\ \A i \in Positions : ScrapeFailed(i) =>
          /\ Logged("Failed to scrape webpage", urls[i + 1])
          /\ EventsOf("write", i) = {}
          /\ FilesOf(i) = {}
          /\ EntriesOf(i) = {}
          /\ pc = "done" => \A j \in Positions : j > i => Fetched(j)

C3_Witness ==
    /\ pc = "done"
    /\ Len(urls) = 3
    /\ ScrapeFailed(0) /\ ScrapeFailed(1) /\ WriteSucceeded(2)
    /\ urls[1] = urls[3]
    /\ Len(url_to_file_map) = 1

----------------------------------------------------------------------------
(* C4 *)

\* C4 as stated: once the CSV is written, every URL whose scrape succeeded has
\* a row, and the file the row names holds a text returned for that URL.
C4_EveryScrapedUrlHasRow ==
    CsvWritten =>
        \A i \in Positions : ScrapeSucceeded(i) =>
            \E r \in 2..Len(csv[1]) :
                /\ csv[1][r][1] = urls[i + 1]
                /\ \E j \in Positions :
                      /\ urls[j + 1] = urls[i + 1]
                      /\ ScrapeSucceeded(j)
                      /\ <<csv[1][r][2], ReturnedText(j)>> \in files

\* C4, amended: once the CSV is written, its first row is the header; every URL
\* whose scrape succeeded and whose text file was then written has a row, and no
\* other URL has one; the file a row names is the file of the URL's last
\* successfully written position, was written in this run, and holds exactly
\* the text scrape_webpage returned at that position.
C4_EveryWrittenUrlHasRow ==
    CsvWritten =>
        /\ Len(csv[1]) >= 1
        /\ csv[1][1] = HeaderRow
        /\ \A i \in Positions : WriteSucceeded(i) =>
              \E r \in 2..Len(csv[1]) : csv[1][r][1] = urls[i + 1]
        /\ \A r \in 2..Len(csv[1]) :
              LET u == csv[1][r][1]
                  name == csv[1][r][2]
              IN  /\ WrittenPositions(u) # {}
                  /\ IsPageFile(name)
                  /\ FileIndex(name) = LastWritten(u)
                  /\ {p \in files : p[1] = name}
                        = {<<name, ReturnedText(LastWritten(u))>>}

C4_Witness ==
    /\ CsvWritten
    /\ Len(urls) = 3
    /\ urls[1] = urls[3] /\ urls[2] # urls[1]
    /\ WriteSucceeded(0) /\ ReturnedText(0) # <<>>
    /\ WriteFailed(1)
    /\ WriteSucceeded(2) /\ ReturnedText(2) = <<>>
    /\ Len(csv[1]) = 2

----------------------------------------------------------------------------
(* C5 *)

\* C5: from the moment np.save has returned, the saved array read back is the
\* input list, item for item and in order, whatever the fetches and writes do.
C5_UrlArrayIsInput ==
    pc \notin {"start", "raised"} =>
        /\ Len(npy) = 1
        /\ NpLoad(npy[1]) = urls

C5_Witness ==
    /\ pc = "done"
    /\ Len(urls) = 3
    /\ urls[1] = urls[3] /\ Len(urls[2]) # Len(urls[1])
    /\ ScrapeFailed(0) /\ WriteFailed(1) /\ WriteSucceeded(2)
    /\ npy[1].items # urls
    /\ NpLoad(npy[1]) = urls

----------------------------------------------------------------------------
(* C6 *)

\* C6 as stated: between the fetches of two successive positions there is a
\* sleep, whatever the outcome of the first.
C6_SleepBetweenAllFetches ==
    \A i \in Positions : (Fetched(i) /\ Fetched(i + 1)) =>
        \E k \in EventsOf("sleep", i) : At("fetch", i) < k /\ k < At("fetch", i + 1)

\* C6, amended: a sleep of 3 to 7 seconds follows every position whose scrape
\* succeeded, whether its file write succeeded or failed, the last position
\* included, and comes before the next fetch; after a failed scrape there is
\* no sleep and the next fetch follows at once.
C6_SleepAfterSuccessfulScrape ==
    /\ (pc = "sleeping") <=> (delay # 0)
    /\ pc = "sleeping" => delay \in 3..7
    /\ \A i \in Positions : (i < idx \/ pc = "done") =>
          IF ScrapeSucceeded(i)
          THEN /\ Cardinality(EventsOf("sleep", i)) = 1
               /\ At("write", i) < At("sleep", i)
               /\ Fetched(i + 1) => At("sleep", i) < At("fetch", i + 1)
          ELSE /\ ~Slept(i)
               /\ Fetched(i + 1) => At("fetch", i + 1) = At("fetch", i) + 1

C6_Witness ==
    /\ pc = "done"
    /\ Len(urls) = 3
    /\ WriteFailed(0) /\ Slept(0)
    /\ ScrapeFailed(1) /\ ~Slept(1)
    /\ WriteSucceeded(2) /\ Slept(2)

----------------------------------------------------------------------------
(* C7 *)

\* C7: the file of a position is numbered by the position: names of different
\* indexes differ and give their index back; every file present was written
\* for the position it is numbered by, whose scrape succeeded, and holds that
\* position's text (or a part of it, after a failed write); a position has at
\* most one file, and none when its scrape failed, so failed positions leave
\* gaps; every mapping entry pairs a URL with the file of one of its positions.
C7_FileIndexIsPosition ==
    /\ pc = "start" =>
          \A i, j \in 0..MaxIdx :
              /\ IsPageFile(Filename(i))
              /\ FileIndex(Filename(i)) = i
              /\ i # j => Filename(i) # Filename(j)
    /\ \A p \in files :
          /\ IsPageFile(p[1])
          /\ FileIndex(p[1]) \in Positions
          /\ ScrapeSucceeded(FileIndex(p[1]))
          /\ EventsOf("write", FileIndex(p[1])) # {}
          /\ p[2] \in Prefixes(ReturnedText(FileIndex(p[1]))) \cup {ReturnedText(FileIndex(p[1]))}
    /\ \A i \in Positions :
          /\ Cardinality(FilesOf(i)) <= 1
          /\ WriteSucceeded(i) => \E p \in FilesOf(i) : p[2] = ReturnedText(i)
          /\ ScrapeFailed(i) => FilesOf(i) = {}
    /\ \A k \in DOMAIN url_to_file_map :
          LET i == FileIndex(url_to_file_map[k][2])
          IN  /\ i \in Positions
              /\ urls[i + 1] = url_to_file_map[k][1]
              /\ WriteSucceeded(i)

C7_Witness ==
    /\ pc = "done"
    /\ Len(urls) = 3
    /\ ScrapeFailed(0) /\ WriteSucceeded(1) /\ WriteSucceeded(2)
    /\ FilesOf(0) = {}
    /\ {FileIndex(p[1]) : p \in files} = {1, 2}

----------------------------------------------------------------------------
(* C8 *)

\* C8: a step in which the file write fails leaves the mapping as it was,
\* prints the failure and goes on to the sleep of the same position; a position
\* whose write failed has no mapping entry naming its file, and when
\* save_to_files is done every later position has been fetched.
C8_WriteFailureKeepsMap ==
    /\ [][(pc = "write" /\ trace' = Append(trace, Event("write", idx, FALSE, text))) =>
            /\ url_to_file_map' = url_to_file_map
            /\ Len(log') = Len(log) + 1
            /\ log'[Len(log')][1] = "Failed to write file"
            /\ FileIndex(log'[Len(log')][2]) = idx
            /\ pc' = "sleep"
            /\ idx' = idx]_vars
    /\ [](\A i \in Positions : WriteFailed(i) =>
            /\ EntriesOf(i) = {}
            /\ ~WriteSucceeded(i)
            /\ pc = "done" => \A j \in Positions : j > i => Fetched(j))

C8_Witness ==
    /\ pc = "done"
    /\ Len(urls) = 3
    /\ urls[1] = urls[2]
    /\ WriteSucceeded(0) /\ WriteFailed(1) /\ ScrapeSucceeded(2)
    /\ FileIndex(DictGet(url_to_file_map, urls[2])) = 0

----------------------------------------------------------------------------
(* C9 *)

\* C9: at every point the mapping is one-to-one: no URL has two entries and no
\* file is named twice; a URL has an entry exactly when one of its positions
\* was written, the entry names the file of the last such position, and the
\* entries stand in the order of the URLs' first written positions; the CSV's
\* data rows are entries of the mapping, in order, and are no more than the
\* files written.
C9_MapOneToOne ==
    LET m == url_to_file_map
    IN  /\ \A a, b \in DOMAIN m : a # b => (m[a][1] # m[b][1] /\ m[a][2] # m[b][2])
        /\ \A u \in Urls : DictHas(m, u) <=> WrittenPositions(u) # {}
        /\ \A a \in DOMAIN m : FileIndex(m[a][2]) = LastWritten(m[a][1])
        /\ \A a, b \in DOMAIN m : a < b => FirstWritten(m[a][1]) < FirstWritten(m[b][1])
        /\ csv # <<>> =>
              /\ \A r \in 2..Len(csv[1]) : csv[1][r] = m[r - 1]
              /\ Len(csv[1]) - 1 <= Cardinality({i \in Positions : WriteSucceeded(i)})

C9_Witness ==
    /\ CsvWritten
    /\ Len(urls) = 3
    /\ urls[1] = urls[3] /\ urls[2] # urls[1]
    /\ WriteSucceeded(0) /\ WriteSucceeded(1) /\ WriteSucceeded(2)
    /\ url_to_file_map = << <<urls[1], Filename(2)>>, <<urls[2], Filename(1)>> >>
    /\ Len(csv[1]) = 3

----------------------------------------------------------------------------
(* C10 *)

\* C10 as stated: when save_to_files is done the CSV has been written, header
\* row first.
C10_CsvAlwaysWritten ==
    pc = "done" => (csv # <<>> /\ csv[1] # <<>> /\ csv[1][1] = HeaderRow)

\* C10, amended: once the URL array is saved, save_to_files ends; by then every
\* position has been fetched exactly once, in list order, and the write of the
\* CSV has been attempted exactly once, as the last step and never before the
\* loop is over; when that write succeeds the CSV is the header row followed by
\* the mapping's rows (the header alone when no URL succeeded), and when it
\* fails the failure is printed.
C10_Terminates ==
    /\ (pc = "loop") ~> (pc = "done")
    /\ [](pc # "done" => CsvAttempts = {})
    /\ [](pc = "done" =>
            /\ \A i \in Positions : Cardinality(EventsOf("fetch", i)) = 1
            /\ \A i, j \in Positions : i < j => At("fetch", i) < At("fetch", j)
            /\ CsvAttempts = {Len(trace)}
            /\ IF trace[Len(trace)].ok
               THEN /\ Len(csv) = 1
                    /\ csv[1][1] = HeaderRow
                    /\ Tail(csv[1]) = url_to_file_map
               ELSE Logged("Failed to write URL to file map", <<>>))

C10_Witness ==
    /\ CsvWritten
    /\ Len(urls) = 3
    /\ ScrapeFailed(0) /\ ScrapeFailed(1) /\ ScrapeFailed(2)
    /\ csv = << <<HeaderRow>> >>

----------------------------------------------------------------------------
(* get_urls_in_sitemap *)

SaveIdle ==
    /\ urls = <<>> /\ pc = "idle" /\ idx = 0 /\ text = <<>> /\ delay = 0
    /\ url_to_file_map = <<>> /\ npy = <<>> /\ files = {} /\ csv = <<>>
    /\ log = <<>> /\ trace = <<>>

url_tag == "{http://www.sitemaps.org/schemas/sitemap/0.9}url"
loc_tag == "{http://www.sitemaps.org/schemas/sitemap/0.9}loc"
lastmod_tag == "{http://www.sitemaps.org/schemas/sitemap/0.9}lastmod"
sitemap_tag == "{http://www.sitemaps.org/schemas/sitemap/0.9}sitemap"

\* "/search"
SearchPat == <<"/", "s", "e", "a", "r", "c", "h">>

\* An element: its tag, its text and its children. ElementTree gives an
\* element without text the text None, written <<>> here: no text is empty.
Elem(tag, txt, children) == [tag |-> tag, text |-> txt, children |-> children]

Loc(txt) == Elem(loc_tag, txt, <<>>)

LocTexts ==
    { <<>>,
      <<"/", "a">>,
      SearchPat,
      <<"x">> \o SearchPat \o <<"?">>,
      <<"/", "s", "e", "a", "r", "c">> }

\* The elements below the root, in document order.
Elems ==
    {Elem(url_tag, <<>>, <<>>), Elem(url_tag, <<>>, <<Elem(lastmod_tag, <<"1">>, <<>>)>>)}
    \cup {Elem(url_tag, <<>>, <<Loc(t)>>) : t \in LocTexts}
    \cup {Elem(url_tag, <<>>, <<Elem(lastmod_tag, <<"1">>, <<>>), Loc(<<"/", "a">>)>>),
          Elem(url_tag, <<>>, <<Loc(<<"/", "a">>), Loc(SearchPat)>>),
          Elem(url_tag, <<>>, <<Loc(SearchPat), Loc(<<"/", "a">>)>>),
          Elem(sitemap_tag, <<>>, <<Loc(<<"/", "a">>)>>)}

\* pat in s
Contains(pat, s) ==
    \E k \in 1..(Len(s) - Len(pat) + 1) : SubSeq(s, k, k + Len(pat) - 1) = pat

\* element.find(tag): the first child of that tag, as <<child>>, or <<>> for None
Find(element, tag) ==
    LET hits == {k \in DOMAIN element.children : element.children[k].tag = tag}
    IN  IF hits = {} THEN <<>>
        ELSE <<element.children[CHOOSE k \in hits : \A h \in hits : k <= h]>>

\* sitemap.findall(".//url"): the url elements below the root, in document order
FindAll(doc, tag) == SelectSeq(doc, LAMBDA e : e.tag = tag)

InitSitemap ==
    /\ sitemap \in SeqsUpTo(Elems, MaxElems)
    /\ sm_pc = "start"
    /\ sm_found = <<>>
    /\ sm_i = 0
    /\ sm_urls = <<>>

\* requests.get and ElementTree.fromstring return; urls = sitemap.findall(...)
SitemapFindAll ==
    /\ sm_pc = "start"
    /\ sm_found' = FindAll(sitemap, url_tag)
    /\ sm_pc' = "filter"
    /\ UNCHANGED <<sitemap, sm_i, sm_urls>>
    /\ UNCHANGED <<saveVars, scrapeVars>>

\* requests.get or ElementTree.fromstring raises
SitemapFetchRaises ==
    /\ sm_pc = "start"
    /\ sm_pc' = "fetch_raised"
    /\ UNCHANGED <<sitemap, sm_found, sm_i, sm_urls>>
    /\ UNCHANGED <<saveVars, scrapeVars>>

\* the comprehension's condition: url.find(loc_tag) is None
SitemapNoLoc ==
    /\ sm_pc = "filter"
    /\ sm_i < Len(sm_found)
    /\ Find(sm_found[sm_i + 1], loc_tag) = <<>>
    /\ sm_i' = sm_i + 1
    /\ UNCHANGED <<sitemap, sm_pc, sm_found, sm_urls>>
    /\ UNCHANGED <<saveVars, scrapeVars>>

\* "/search" not in None: TypeError, and get_urls_in_sitemap returns nothing
SitemapTypeError ==
    /\ sm_pc = "filter"
    /\ sm_i < Len(sm_found)
    /\ Find(sm_found[sm_i + 1], loc_tag) # <<>>
    /\ Find(sm_found[sm_i + 1], loc_tag)[1].text = <<>>
    /\ sm_pc' = "raised"
    /\ UNCHANGED <<sitemap, sm_found, sm_i, sm_urls>>
    /\ UNCHANGED <<saveVars, scrapeVars>>

\* the loc text contains "/search": the url is left out
SitemapExcluded ==
    /\ sm_pc = "filter"
    /\ sm_i < Len(sm_found)
    /\ Find(sm_found[sm_i + 1], loc_tag) # <<>>
    /\ Find(sm_found[sm_i + 1], loc_tag)[1].text # <<>>
    /\ Contains(SearchPat, Find(sm_found[sm_i + 1], loc_tag)[1].text)
    /\ sm_i' = sm_i + 1
    /\ UNCHANGED <<sitemap, sm_pc, sm_found, sm_urls>>
    /\ UNCHANGED <<saveVars, scrapeVars>>

\* the loc text does not contain "/search": it is appended
SitemapKept ==
    /\ sm_pc = "filter"
    /\ sm_i < Len(sm_found)
    /\ Find(sm_found[sm_i + 1], loc_tag) # <<>>
    /\ Find(sm_found[sm_i + 1], loc_tag)[1].text # <<>>
    /\ ~Contains(SearchPat, Find(sm_found[sm_i + 1], loc_tag)[1].text)
    /\ sm_urls' = Append(sm_urls, Find(sm_found[sm_i + 1], loc_tag)[1].text)
    /\ sm_i' = sm_i + 1
    /\ UNCHANGED <<sitemap, sm_pc, sm_found>>
    /\ UNCHANGED <<saveVars, scrapeVars>>

\* return urls
SitemapReturn ==
    /\ sm_pc = "filter"
    /\ sm_i = Len(sm_found)
    /\ sm_pc' = "returned"
    /\ UNCHANGED <<sitemap, sm_found, sm_i, sm_urls>>
    /\ UNCHANGED <<saveVars, scrapeVars>>

NextSitemap ==
    \/ SitemapFindAll
    \/ SitemapFetchRaises
    \/ SitemapNoLoc
    \/ SitemapTypeError
    \/ SitemapExcluded
    \/ SitemapKept
    \/ SitemapReturn

SitemapInit == InitSitemap /\ SaveIdle /\ ScrapeIdle

SpecSitemap == SitemapInit /\ [][NextSitemap]_vars

----------------------------------------------------------------------------
(* C1 *)

HasLoc(e) == \E k \in DOMAIN e.children : e.children[k].tag = loc_tag

FirstLocText(e) ==
    e.children[CHOOSE k \in DOMAIN e.children :
                  /\ e.children[k].tag = loc_tag
                  /\ \A h \in 1..(k - 1) : e.children[h].tag # loc_tag].text

RECURSIVE ExpectedUrls(_)
\* in document order, the loc text of every url element that has a loc child
\* and whose loc text does not contain "/search"
ExpectedUrls(doc) ==
    IF doc = <<>> THEN <<>>
    ELSE LET e == doc[1]
         IN  IF e.tag = url_tag /\ HasLoc(e) /\ ~Contains(SearchPat, FirstLocText(e))
             THEN <<FirstLocText(e)>> \o ExpectedUrls(Tail(doc))
             ELSE ExpectedUrls(Tail(doc))

\* C1: once the sitemap is fetched and parsed, get_urls_in_sitemap returns, and
\* what it returns is, in document order, exactly the loc text of every url
\* element that has a loc child and whose loc text does not contain "/search".
C1_ReturnsFilteredLocs ==
    sm_pc \in {"returned", "raised"} =>
        /\ sm_pc = "returned"
        /\ sm_urls = ExpectedUrls(sitemap)

\* What does hold: whenever the function returns, it returns that list.
C1_ReturnedListIsFiltered ==
    sm_pc = "returned" =>
        /\ sm_urls = ExpectedUrls(sitemap)
        /\ \A k \in DOMAIN sm_urls : ~Contains(SearchPat, sm_urls[k])

----------------------------------------------------------------------------
(* scrape_webpage *)

MIN_WORD_COUNT == 10

\* The characters str.split() takes for whitespace; "NL" is the newline.
Whitespace == {" ", "TAB", "CR", "NL"}

\* n words, each followed by sep except the last
Words(n, sep) == JoinWith(sep, [k \in 1..n |-> <<"w">>])

\* A line of a tag's text: the words it holds and its characters.
Line(n, chars) == [n |-> n, s |-> chars]

L0 == Line(0, <<>>)
L0s == Line(0, <<" ", "TAB">>)
L1 == Line(1, <<"w">>)
L9 == Line(9, <<" ">> \o Words(9, <<" ", "TAB">>) \o <<"CR">>)
L10 == Line(10, Words(10, <<" ">>))

\* A tag of the page: its name and the lines of its text.
Tag(name, lines) == [name |-> name, lines |-> lines]

Tags ==
    {Tag("p", ls) : ls \in {<<L10>>, <<L9>>, <<L1>>, <<L0>>, <<L9, L10>>,
                            <<L10, L1>>, <<L1, L0s, L9>>}}
    \cup {Tag("h1", ls) : ls \in {<<L10>>, <<L9>>, <<L0>>}}
    \cup {Tag("h2", <<L10>>), Tag("div", <<L10>>)}

\* tag.get_text()
GetText(tag) == JoinWith(<<"NL">>, [k \in DOMAIN tag.lines |-> tag.lines[k].s])

\* soup.find_all(names): the tags of these names, in document order
FindAllTags(page, names) == SelectSeq(page, LAMBDA t : t.name \in names)

RECURSIVE Split(_, _)
\* s.split(sep), sep one character
Split(s, sep) ==
    IF \A k \in DOMAIN s : s[k] # sep THEN <<s>>
    ELSE LET k == CHOOSE i \in DOMAIN s : s[i] = sep /\ \A j \in 1..(i - 1) : s[j] # sep
         IN  <<SubSeq(s, 1, k - 1)>> \o Split(SubSeq(s, k + 1, Len(s)), sep)

\* Variant: len(s.split(" ")), one more than the spaces in s.
WordCountBySpaces(s) == 1 + Cardinality({k \in DOMAIN s : s[k] = " "})

\* len(s.split()): the maximal runs of characters that are not whitespace
WordCount(s) ==
    Cardinality({k \in DOMAIN s :
                    /\ s[k] \notin Whitespace
                    /\ (k = 1 \/ s[k - 1] \in Whitespace)})

InitScrape ==
    /\ sc_page \in SeqsUpTo(Tags, MaxTags)
    /\ sc_pc = "start"
    /\ relevant_tags = <<>>
    /\ sc_text = <<>>
    /\ sentences = <<>>
    /\ filtered_sentences = <<>>
    /\ filtered_text = <<>>

\* requests.get returns; the page is parsed; relevant_tags = soup.find_all(["h1", "p"])
ScrapeFindAll ==
    /\ sc_pc = "start"
    /\ relevant_tags' = FindAllTags(sc_page, {"h1", "p"})
    /\ sc_pc' = "join"
    /\ UNCHANGED <<sc_page, sc_text, sentences, filtered_sentences, filtered_text>>
    /\ UNCHANGED <<saveVars, sitemapVars>>

\* requests.get raises
ScrapeRaises ==
    /\ sc_pc = "start"
    /\ sc_pc' = "raised"
    /\ UNCHANGED <<sc_page, relevant_tags, sc_text, sentences, filtered_sentences, filtered_text>>
    /\ UNCHANGED <<saveVars, sitemapVars>>

\* text = " ".join(tag.get_text() for tag in relevant_tags)
ScrapeJoin ==
    /\ sc_pc = "join"
    /\ sc_text' = JoinWith(<<" ">>, [k \in DOMAIN relevant_tags |-> GetText(relevant_tags[k])])
    /\ sc_pc' = "split"
    /\ UNCHANGED <<sc_page, relevant_tags, sentences, filtered_sentences, filtered_text>>
    /\ UNCHANGED <<saveVars, sitemapVars>>

\* sentences = text.split("\n")
ScrapeSplit ==
    /\ sc_pc = "split"
    /\ sentences' = Split(sc_text, "NL")
    /\ sc_pc' = "filter"
    /\ UNCHANGED <<sc_page, relevant_tags, sc_text, filtered_sentences, filtered_text>>
    /\ UNCHANGED <<saveVars, sitemapVars>>

\* filtered_sentences = [s for s in sentences if len(s.split()) >= MIN_WORD_COUNT]
ScrapeFilter ==
    /\ sc_pc = "filter"
    /\ filtered_sentences' = SelectSeq(sentences, LAMBDA s : WordCount(s) >= MIN_WORD_COUNT)
    /\ sc_pc' = "rejoin"
    /\ UNCHANGED <<sc_page, relevant_tags, sc_text, sentences, filtered_text>>
    /\ UNCHANGED <<saveVars, sitemapVars>>

\* filtered_text = " ".join(filtered_sentences); return filtered_text
ScrapeRejoin ==
    /\ sc_pc = "rejoin"
    /\ filtered_text' = JoinWith(<<" ">>, filtered_sentences)
    /\ sc_pc' = "returned"
    /\ UNCHANGED <<sc_page, relevant_tags, sc_text, sentences, filtered_sentences>>
    /\ UNCHANGED <<saveVars, sitemapVars>>

NextScrape ==
    \/ ScrapeFindAll
    \/ ScrapeRaises
    \/ ScrapeJoin
    \/ ScrapeSplit
    \/ ScrapeFilter
    \/ ScrapeRejoin

ScrapeInit == InitScrape /\ SaveIdle /\ SitemapIdle

SpecScrape == ScrapeInit /\ [][NextScrape]_vars

----------------------------------------------------------------------------
(* C2 *)

RECURSIVE LinesOf(_)
\* The lines of the text of a sequence of tags whose texts are joined by one
\* space: the last line of a tag and the first line of the next are one line.
LinesOf(tags) ==
    IF tags = <<>> THEN <<L0>>
    ELSE IF Len(tags) = 1 THEN tags[1].lines
    ELSE LET here == tags[1].lines
             rest == LinesOf(Tail(tags))
             last == here[Len(here)]
         IN  SubSeq(here, 1, Len(here) - 1)
             \o <<Line(last.n + rest[1].n, last.s \o <<" ">> \o rest[1].s)>>
             \o Tail(rest)

\* The lines of at least MIN_WORD_COUNT words, in order, joined by single spaces.
KeptText(lines) ==
    LET kept == SelectSeq(lines, LAMBDA l : l.n >= 10)
    IN  JoinWith(<<" ">>, [k \in DOMAIN kept |-> kept[k].s])

\* C2 as stated: the result is made of the lines of the text of the page's
\* heading and paragraph elements (h1 to h6 and p).
C2_HeadingsAndParagraphs ==
    sc_pc = "returned" =>
        filtered_text = KeptText(LinesOf(FindAllTags(sc_page, {"h1", "h2", "p"})))

\* C2, amended: the texts of the page's h1 and p elements, and of no other
\* heading, are joined in document order by single spaces; the result is the
\* lines of that text (split at newlines) that hold 10 or more
\* whitespace-separated words, every such line and no line of fewer words, in
\* their order and joined by single spaces.
C2_H1AndParagraphs ==
    /\ sc_pc \in {"filter", "rejoin", "returned"} =>
          /\ Len(sentences) = Len(LinesOf(FindAllTags(sc_page, {"h1", "p"})))
          /\ \A k \in DOMAIN sentences :
                sentences[k] = LinesOf(FindAllTags(sc_page, {"h1", "p"}))[k].s
    /\ sc_pc \in {"rejoin", "returned"} =>
          filtered_sentences =
              [k \in DOMAIN SelectSeq(LinesOf(FindAllTags(sc_page, {"h1", "p"})),
                                      LAMBDA l : l.n >= 10) |->
                  SelectSeq(LinesOf(FindAllTags(sc_page, {"h1", "p"})),
                            LAMBDA l : l.n >= 10)[k].s]
    /\ sc_pc = "returned" =>
          filtered_text = KeptText(LinesOf(FindAllTags(sc_page, {"h1", "p"})))

C2_Witness ==
    /\ sc_pc = "returned"
    /\ Len(sc_page) = 3
    /\ sc_page[1] = Tag("p", <<L10, L1>>)
    /\ sc_page[2] = Tag("h1", <<L9>>)
    /\ sc_page[3] = Tag("p", <<L1, L0s, L9>>)
    /\ Len(sentences) = 4
    /\ Len(filtered_sentences) = 2
    /\ filtered_text = L10.s \o <<" ">> \o L1.s \o <<" ">> \o L9.s \o <<" ">> \o L1.s

====
